---- MODULE Spec2Model ----
(***************************************************************************)
(* SwiftStock: the synthetic inventory generator                           *)
(* (data_ingestion/inventory_data_generator.py) and the two dashboards     *)
(* (streamlit_app.py, streamlit_mvp/streamlit_app.py).                     *)
(*                                                                         *)
(* Strings the code inspects character by character (item names, chat      *)
(* queries, dropdown labels) are sequences of one-character strings.       *)
(* Coordinates are integer metres (LATITUDE north, LONGITUDE east of an    *)
(* origin) and the distance functions of the code (geopy's geodesic, the   *)
(* warehouse's ST_DISTANCE) are the sum of the absolute offsets: a         *)
(* symmetric, non-negative distance that is 0 exactly between equal        *)
(* points.                                                                 *)
(***************************************************************************)
EXTENDS Integers, Sequences, FiniteSets, TLC

VARIABLES
    program,         \* which script of the repository this run executes
    \* ---- inventory_data_generator.py: generate_inventory() ----
    pc,              \* position in generate_inventory
    inputFile,       \* hospitals.csv: [status, rows]
    outputFile,      \* inventory_data.csv: [exists, rows]
    printed,         \* what generate_inventory printed
    df_facilities,   \* the frame read from INPUT_FILE
    victim_ids, savior_ids,
    vid, min_dist, nearest,   \* locals of the victim loop (lines 54-63)
    v_idx,           \* index of the next victim of the victim loop
    fac_idx,         \* index of the next row of the facility loop (line 67)
    inventory_rows,
    \* ---- the dashboards: streamlit_app.py, streamlit_mvp/streamlit_app.py ----
    facilities,      \* table FACILITIES
    inventory,       \* table INVENTORY_DAILY (INVENTORY_DAILY_PREDICTED)
    query,           \* the last call of find_nearest_neighbors: its arguments
    neighbors_df,    \* and the frame it returned
    user_query,      \* the last chat input
    valid_items,     \* the known items run_chat_action was given
    extracted_item,  \* what run_chat_action returned
    cache_loaded,    \* st.cache_data holds the network status
    has_messages,    \* "messages" in st.session_state
    messages,        \* st.session_state.messages
    selected_victim, \* the hospital the console's selectbox holds
    victim_options,  \* the hospitals the last run offered in that selectbox
    chat_shown,      \* the last run reached st.chat_input
    rendered,        \* the notices the last run showed
    run_end,         \* how the last run ended: complete, stopped, exception
    failures,        \* the external queries that failed in the last run
    calls,           \* the calls of find_nearest_neighbors of the last run
    item_row,        \* the row of item_stats the item selectbox is on
    selected_display,  \* the label of that row
    actual_item_name   \* the item name taken back from the label

genVars == <<pc, inputFile, outputFile, printed, df_facilities, victim_ids,
             savior_ids, vid, min_dist, nearest, v_idx, fac_idx, inventory_rows>>

dbVars == <<facilities, inventory>>

queryVars == <<query, neighbors_df>>

resolverVars == <<user_query, valid_items, extracted_item>>

sessionVars == <<cache_loaded, has_messages, messages, selected_victim,
                 victim_options, chat_shown, rendered, run_end, failures, calls>>

selectorVars == <<item_row, selected_display, actual_item_name>>

dashVars == <<dbVars, queryVars, resolverVars, sessionVars, selectorVars>>

vars == <<program, genVars, dashVars>>

\* Python's None where the code holds a facility id (ids are positive)
None == -1

\* find_nearest_neighbors has not been called
NoQuery == [victim_id |-> None, item_name |-> <<>>, failed |-> FALSE]

-----------------------------------------------------------------------------
(* Bounds of the model *)

\* the generator reads at most this many facilities
MaxFacilities == 4
\* the generator samples from the first CatalogSize entries of MASTER_ITEMS
CatalogSize == 2
\* smallest sample of items per facility (the code: 20 of 25)
MinItems == 1
\* rows of table FACILITIES when find_nearest_neighbors is applied to it
NumFacilities == 5

-----------------------------------------------------------------------------
(* Helpers *)

Abs(x) == IF x < 0 THEN -x ELSE x

Max(a, b) == IF a >= b THEN a ELSE b

Min(a, b) == IF a <= b THEN a ELSE b

Range(s) == {s[i] : i \in 1..Len(s)}

RECURSIVE SeqOfSet(_)
\* the elements of a finite set of integers in ascending order
SeqOfSet(S) ==
    IF S = {} THEN <<>>
    ELSE LET m == CHOOSE x \in S : \A y \in S : x <= y
         IN <<m>> \o SeqOfSet(S \ {m})

\* geodesic(a, b), in metres
Geodesic(a, b) ==
    Abs(a.LATITUDE - b.LATITUDE) + Abs(a.LONGITUDE - b.LONGITUDE)

-----------------------------------------------------------------------------
(* inventory_data_generator.py *)

MASTER_ITEMS == <<
    [name |-> <<"O","x","y","t","o","c","i","n"," ","I","n","j","e","c","t","i","o","n">>,
     cat |-> "Maternal", crit |-> "High"],
    [name |-> <<"M","a","g","n","e","s","i","u","m"," ","S","u","l","f","a","t","e">>,
     cat |-> "Maternal", crit |-> "High"],
    [name |-> <<"A","m","o","x","i","c","i","l","l","i","n"," ","5","0","0","m","g">>,
     cat |-> "Antibiotic", crit |-> "Medium"],
    [name |-> <<"A","z","i","t","h","r","o","m","y","c","i","n">>,
     cat |-> "Antibiotic", crit |-> "Medium"],
    [name |-> <<"I","n","s","u","l","i","n"," ","G","l","a","r","g","i","n","e">>,
     cat |-> "Chronic", crit |-> "High"],
    [name |-> <<"M","e","t","f","o","r","m","i","n"," ","5","0","0","m","g">>,
     cat |-> "Chronic", crit |-> "Medium"],
    [name |-> <<"A","m","l","o","d","i","p","i","n","e"," ","5","m","g">>,
     cat |-> "Chronic", crit |-> "Medium"],
    [name |-> <<"R","i","n","g","e","r"," ","L","a","c","t","a","t","e">>,
     cat |-> "Fluids", crit |-> "High"],
    [name |-> <<"N","o","r","m","a","l"," ","S","a","l","i","n","e"," ","0",".","9","%">>,
     cat |-> "Fluids", crit |-> "Medium"],
    [name |-> <<"E","p","i","n","e","p","h","r","i","n","e">>,
     cat |-> "Emergency", crit |-> "High"],
    [name |-> <<"B","C","G"," ","V","a","c","c","i","n","e">>,
     cat |-> "Vaccine", crit |-> "High"],
    [name |-> <<"P","o","l","i","o"," ","V","a","c","c","i","n","e">>,
     cat |-> "Vaccine", crit |-> "High"],
    [name |-> <<"S","u","r","g","i","c","a","l"," ","M","a","s","k","s">>,
     cat |-> "Consumable", crit |-> "Low"],
    [name |-> <<"S","t","e","r","i","l","e"," ","G","l","o","v","e","s">>,
     cat |-> "Consumable", crit |-> "Low"],
    [name |-> <<"D","i","s","p","o","s","a","b","l","e"," ","S","y","r","i","n","g","e","s"," ","3","m","l">>,
     cat |-> "Consumable", crit |-> "Low"],
    [name |-> <<"I","V"," ","C","a","n","n","u","l","a">>,
     cat |-> "Consumable", crit |-> "Medium"],
    [name |-> <<"H","I","V"," ","R","a","p","i","d"," ","T","e","s","t"," ","K","i","t">>,
     cat |-> "Diagnostic", crit |-> "High"],
    [name |-> <<"M","a","l","a","r","i","a"," ","R","D","T">>,
     cat |-> "Diagnostic", crit |-> "High"],
    [name |-> <<"B","l","o","o","d"," ","G","l","u","c","o","s","e"," ","S","t","r","i","p","s">>,
     cat |-> "Diagnostic", crit |-> "Medium"],
    [name |-> <<"P","a","r","a","c","e","t","a","m","o","l"," ","5","0","0","m","g">>,
     cat |-> "General", crit |-> "Low"],
    [name |-> <<"I","b","u","p","r","o","f","e","n"," ","4","0","0","m","g">>,
     cat |-> "General", crit |-> "Low"],
    [name |-> <<"O","r","a","l"," ","R","e","h","y","d","r","a","t","i","o","n"," ","S","a","l","t","s">>,
     cat |-> "General", crit |-> "Medium"],
    [name |-> <<"T","B","-","K","i","t"," ","A","d","u","l","t">>,
     cat |-> "Infectious", crit |-> "High"],
    [name |-> <<"A","r","t","e","m","e","t","h","e","r"," ","(","M","a","l","a","r","i","a",")">>,
     cat |-> "Infectious", crit |-> "High"],
    [name |-> <<"F","o","l","i","c"," ","A","c","i","d">>,
     cat |-> "Maternal", crit |-> "Low"]
>>

OXYTOCIN == MASTER_ITEMS[1].name

\* random.randint(100, 400), (0, 30), (5, 25): lines 81-83
OpeningMin == 100
OpeningMax == 400
ReceivedMin == 0
ReceivedMax == 30
IssuedMin == 5
IssuedMax == 25
\* the scripted scenarios: lines 89 and 91
CrisisOpening == 10
CrisisIssued == 10
SurplusOpening == 600
SurplusIssued == 5
\* min_dist starts at 9999 km (line 57), in metres
MinDistStart == 9999000
\* the facilities that are victims: head(3), line 52
NumVictims == 3

\* The draws of the three randint calls (opening, received, issued) the
\* model follows: the draw of least closing stock and the draw of most.
StockDraws == {<<OpeningMin, ReceivedMin, IssuedMax>>,
               <<OpeningMax, ReceivedMax, IssuedMin>>}

\* The positions a facility of hospitals.csv may have, in metres.
Positions == {0, 1000, 3000}

\* hospitals.csv with n rows: FACILITY_ID k on row k.
FacilityFiles ==
    UNION {[1..n -> Positions] : n \in 0..MaxFacilities}

FacilityRows(f) ==
    [k \in DOMAIN f |-> [FACILITY_ID |-> k, LATITUDE |-> f[k], LONGITUDE |-> 0]]

\* Python truthiness of a facility id or None (line 63)
Truthy(x) == x # None /\ x # 0

\* df_facilities['FACILITY_ID'].head(3).tolist(), line 52
HeadIds(df) == [k \in 1..Min(NumVictims, Len(df)) |-> df[k].FACILITY_ID]

\* df_facilities[df_facilities['FACILITY_ID'] == vid].iloc[0], line 55
VictimRow(df, v) ==
    df[CHOOSE k \in 1..Len(df) :
          /\ df[k].FACILITY_ID = v
          /\ \A j \in 1..(k - 1) : df[j].FACILITY_ID # v]

RECURSIVE ScanNearestLast(_, _, _, _, _)
\* a scan that lets a later facility at the same distance take over
ScanNearestLast(df, v, k, md, nr) ==
    IF k > Len(df) THEN <<md, nr>>
    ELSE IF df[k].FACILITY_ID = v THEN ScanNearestLast(df, v, k + 1, md, nr)
    ELSE LET dist == Geodesic(VictimRow(df, v), df[k])
         IN IF dist <= md
              THEN ScanNearestLast(df, v, k + 1, dist, df[k].FACILITY_ID)
              ELSE ScanNearestLast(df, v, k + 1, md, nr)

RECURSIVE ScanNearest(_, _, _, _, _)
\* the loop of lines 58-62 from row k on; yields <<min_dist, nearest>>
ScanNearest(df, v, k, md, nr) ==
    IF k > Len(df) THEN <<md, nr>>
    ELSE IF df[k].FACILITY_ID = v THEN ScanNearest(df, v, k + 1, md, nr)
    ELSE LET dist == Geodesic(VictimRow(df, v), df[k])
         IN IF dist < md
              THEN ScanNearest(df, v, k + 1, dist, df[k].FACILITY_ID)
              ELSE ScanNearest(df, v, k + 1, md, nr)

\* a closing stock that forgets the units received
ClosingDropsReceived(opening, received, issued) == Max(0, opening - issued)

\* closing = max(0, opening + received - issued), line 93
Closing(opening, received, issued) == Max(0, opening + received - issued)

\* random.sample(MASTER_ITEMS, num_items) with num_items = randint(..):
\* lines 71-72. The sample is kept in catalog order.
Samples ==
    {S \in SUBSET (1..CatalogSize) :
        Cardinality(S) >= MinItems /\ Cardinality(S) <= CatalogSize}

SelectedNames(sel) == {MASTER_ITEMS[sel[i]].name : i \in 1..Len(sel)}

\* Oxytocin appended for a victim or a savior whatever the sample holds
ForceOxytocinAlways(sel, fid, victims, saviors) ==
    IF fid \in Range(victims) \/ fid \in Range(saviors)
      THEN Append(sel, 1)
      ELSE sel

\* the sample left as drawn: what lines 75-77 would be without the append
ForceOxytocinNever(sel, fid, victims, saviors) == sel

\* lines 75-77: Oxytocin is added for a victim or a savior that lacks it
ForceOxytocin(sel, fid, victims, saviors) ==
    IF (fid \in Range(victims) \/ fid \in Range(saviors))
         /\ OXYTOCIN \notin SelectedNames(sel)
      THEN Append(sel, 1)
      ELSE sel

\* lines 86-91: the scripted scenario replaces the draw
Scenario(name, fid, victims, saviors, draw) ==
    IF name = OXYTOCIN /\ fid \in Range(victims)
      THEN <<CrisisOpening, 0, CrisisIssued>>
    ELSE IF name = OXYTOCIN /\ fid \in Range(saviors)
      THEN <<SurplusOpening, 0, SurplusIssued>>
    ELSE draw

\* lines 95-107: one row (RECORD_ID, DATE, LEAD_TIME_DAYS are not modelled:
\* a fresh uuid, one date per run, a draw nothing reads)
InventoryRow(fid, item, s) ==
    [FACILITY_ID |-> fid, ITEM_NAME |-> item.name, CATEGORY |-> item.cat,
     OPENING_STOCK |-> s[1], RECEIVED_QTY |-> s[2], ISSUED_QTY |-> s[3],
     CLOSING_STOCK |-> Closing(s[1], s[2], s[3]),
     CRITICALITY_LEVEL |-> item.crit]

\* the rows of one facility: lines 79-107, one draw per selected item
FacilityRowsOut(fid, sel, draws, victims, saviors) ==
    [i \in 1..Len(sel) |->
        InventoryRow(fid, MASTER_ITEMS[sel[i]],
            Scenario(MASTER_ITEMS[sel[i]].name, fid, victims, saviors, draws[i]))]

\* no facility name is selected / no chat input was submitted
NoName == ""

NoPrompt == <<"NoPrompt">>

\* run_chat_action has not been called in this run
Unset == <<"Unset">>

\* no script run yet in the session
SessionIdle ==
    /\ cache_loaded = FALSE
    /\ has_messages = FALSE
    /\ messages = <<>>
    /\ selected_victim = NoName
    /\ victim_options = {}
    /\ chat_shown = FALSE
    /\ rendered = {}
    /\ run_end = "none"
    /\ failures = {}
    /\ calls = <<>>

\* no row of item_stats: the script has not reached the item selectbox
NoRow == [ITEM_NAME |-> <<>>, CRITICAL_COUNT |-> 0]

SelectorIdle ==
    /\ item_row = NoRow
    /\ selected_display = <<>>
    /\ actual_item_name = <<>>

ResolverIdle ==
    /\ user_query = NoPrompt
    /\ valid_items = <<>>
    /\ extracted_item = Unset

\* the dashboards' state while the generator runs
DashIdle ==
    /\ facilities = <<>>
    /\ inventory = {}
    /\ query = NoQuery
    /\ neighbors_df = <<>>
    /\ SessionIdle
    /\ SelectorIdle
    /\ ResolverIdle

GenInit ==
    /\ program = "inventory_data_generator"
    /\ DashIdle
    /\ pc = "read"
    /\ inputFile \in
          {[status |-> "missing", rows |-> <<>>],
           [status |-> "unreadable", rows |-> <<>>]}
          \cup {[status |-> "ok", rows |-> FacilityRows(f)] : f \in FacilityFiles}
    /\ outputFile \in {[exists |-> FALSE, rows |-> <<>>],
                       [exists |-> TRUE, rows |-> <<"previous run">>]}
    /\ printed = <<>>
    /\ df_facilities = <<>>
    /\ victim_ids = <<>>
    /\ savior_ids = <<>>
    /\ vid = None
    /\ min_dist = MinDistStart
    /\ nearest = None
    /\ v_idx = 1
    /\ fac_idx = 1
    /\ inventory_rows = <<>>

\* GenRead without the return of line 47: the run goes on with no rows
GenReadNoReturn ==
    /\ program = "inventory_data_generator"
    /\ pc = "read"
    /\ CASE inputFile.status = "missing" ->
              /\ printed' = Append(printed, "Error: hospitals.csv not found.")
              /\ pc' = "victims"
              /\ UNCHANGED <<df_facilities, victim_ids>>
         [] inputFile.status = "unreadable" ->
              /\ pc' = "raised"
              /\ UNCHANGED <<printed, df_facilities, victim_ids>>
         [] OTHER ->
              /\ df_facilities' = inputFile.rows
              /\ victim_ids' = HeadIds(inputFile.rows)
              /\ pc' = "victims"
              /\ UNCHANGED printed
    /\ UNCHANGED <<program, inputFile, outputFile, savior_ids, vid, min_dist,
                   nearest, v_idx, fac_idx, inventory_rows, dashVars>>

\* lines 43-52: read the input; FileNotFoundError is the one exception
\* caught, any other failure of read_csv leaves generate_inventory
GenRead ==
    /\ program = "inventory_data_generator"
    /\ pc = "read"
    /\ CASE inputFile.status = "missing" ->
              /\ printed' = Append(printed, "Error: hospitals.csv not found.")
              /\ pc' = "returned"
              /\ UNCHANGED <<df_facilities, victim_ids>>
         [] inputFile.status = "unreadable" ->
              /\ pc' = "raised"
              /\ UNCHANGED <<printed, df_facilities, victim_ids>>
         [] OTHER ->
              /\ df_facilities' = inputFile.rows
              /\ victim_ids' = HeadIds(inputFile.rows)
              /\ pc' = "victims"
              /\ UNCHANGED printed
    /\ UNCHANGED <<program, inputFile, outputFile, savior_ids, vid, min_dist,
                   nearest, v_idx, fac_idx, inventory_rows, dashVars>>

\* lines 54-63: one iteration of the victim loop
GenScanVictim ==
    /\ program = "inventory_data_generator"
    /\ pc = "victims"
    /\ v_idx <= Len(victim_ids)
    /\ LET v == victim_ids[v_idx]
           r == ScanNearest(df_facilities, v, 1, MinDistStart, None)
       IN /\ vid' = v
          /\ min_dist' = r[1]
          /\ nearest' = r[2]
          /\ savior_ids' = IF Truthy(r[2]) THEN Append(savior_ids, r[2])
                           ELSE savior_ids
    /\ v_idx' = v_idx + 1
    /\ UNCHANGED <<program, pc, inputFile, outputFile, printed, df_facilities,
                   victim_ids, fac_idx, inventory_rows, dashVars>>

\* lines 67-107: one iteration of the facility loop
GenFacility ==
    /\ program = "inventory_data_generator"
    /\ \/ pc = "victims" /\ v_idx > Len(victim_ids)
       \/ pc = "rows"
    /\ fac_idx <= Len(df_facilities)
    /\ LET fid == df_facilities[fac_idx].FACILITY_ID
       IN \E S \in Samples :
            LET sel == ForceOxytocin(SeqOfSet(S), fid, victim_ids, savior_ids)
            IN \E draws \in [1..Len(sel) -> StockDraws] :
                 inventory_rows' = inventory_rows \o
                     FacilityRowsOut(fid, sel, draws, victim_ids, savior_ids)
    /\ fac_idx' = fac_idx + 1
    /\ pc' = "rows"
    /\ UNCHANGED <<program, inputFile, outputFile, printed, df_facilities,
                   victim_ids, savior_ids, vid, min_dist, nearest, v_idx,
                   dashVars>>

\* lines 109-110: write the output and report
GenWrite ==
    /\ program = "inventory_data_generator"
    /\ \/ pc = "victims" /\ v_idx > Len(victim_ids)
       \/ pc = "rows"
    /\ fac_idx > Len(df_facilities)
    /\ outputFile' = [exists |-> TRUE, rows |-> inventory_rows]
    /\ printed' = Append(printed, "Generated")
    /\ pc' = "done"
    /\ UNCHANGED <<program, inputFile, df_facilities, victim_ids, savior_ids,
                   vid, min_dist, nearest, v_idx, fac_idx, inventory_rows,
                   dashVars>>

GenNext == GenRead \/ GenScanVictim \/ GenFacility \/ GenWrite

SpecGen == GenInit /\ [][GenNext]_vars

-----------------------------------------------------------------------------
(* The dashboards: find_nearest_neighbors *)

V1 == "streamlit_app"

MVP == "streamlit_mvp"

EPINEPHRINE == MASTER_ITEMS[10].name

\* inv.CLOSING_STOCK > 100 (streamlit_app.py line 54, streamlit_mvp line 74)
MinStock == 100
\* HAVING DISTANCE_KM < 10 (streamlit_app.py line 55), in tenths of a km
MaxDistanceKm10 == 100
\* LIMIT 3 (streamlit_app.py line 57, streamlit_mvp line 76)
QueryLimit == 3
\* the one DATE of the inventory rows drawn here
LatestDate == 2

FacilityNames == <<"RS Alpha", "RS Bravo", "RS Charlie", "RS Delta",
                   "RS Echo", "RS Foxtrot", "RS Golf">>

\* The positions of a facility of table FACILITIES, in metres: distances of
\* 0 m, 40 m (0.0 km), 9920 m (9.9 km), 9960 m and 10000 m (10.0 km).
DbPositions == {0, 40, 9960}

\* The closing stocks of a row of the inventory table: out of stock, at the
\* threshold, above it.
DbStocks == {0, 100, 150}

FacilityTable(pos) ==
    [k \in DOMAIN pos |->
        [FACILITY_ID |-> k, FACILITY_NAME |-> FacilityNames[k],
         LATITUDE |-> pos[k], LONGITUDE |-> 0]]

InventoryRowOf(k, item, date, stock) ==
    [FACILITY_ID |-> k, ITEM_NAME |-> item, DATE |-> date,
     CLOSING_STOCK |-> stock, CRITICALITY_LEVEL |-> "High"]

\* one Oxytocin row per facility, and an Epinephrine row of the first
InventoryTable(stock) ==
    {InventoryRowOf(k, OXYTOCIN, LatestDate, stock[k]) : k \in DOMAIN stock}
       \cup {InventoryRowOf(1, EPINEPHRINE, LatestDate, 150)}

\* ST_DISTANCE(source point, neighbor point), in metres
ST_DISTANCE(a, b) == Geodesic(a, b)

\* ROUND(metres / 1000, 1), in tenths of a kilometre
RoundKm10(metres) == (metres + 50) \div 100

DISTANCE_KM(source, neighbor) == RoundKm10(ST_DISTANCE(source, neighbor))

\* a join without its ON condition
JoinOnAnyNeighbor(source, neighbor) == TRUE

\* JOIN FACILITIES neighbor ON source.FACILITY_ID != neighbor.FACILITY_ID
JoinOn(source, neighbor) == source.FACILITY_ID # neighbor.FACILITY_ID

\* a filter that lets exactly 100 units through
WhereStockAtLeast(inv) == inv.CLOSING_STOCK >= MinStock

\* AND inv.CLOSING_STOCK > 100
WhereStock(inv) == inv.CLOSING_STOCK > MinStock

\* HAVING DISTANCE_KM < 10: streamlit_app.py only
Having(app, source, neighbor) ==
    app = V1 => DISTANCE_KM(source, neighbor) < MaxDistanceKm10

\* the rows of FROM .. JOIN .. JOIN .. WHERE .. HAVING, before the projection:
\* one per (source, neighbor, inventory row) that passes
Matched(app, victim_id, item_name) ==
    UNION {UNION {{[source |-> s, neighbor |-> n, inv |-> i] :
                      i \in {i \in inventory :
                                /\ n.FACILITY_ID = i.FACILITY_ID
                                /\ i.ITEM_NAME = item_name
                                /\ WhereStock(i)
                                /\ Having(app, s, n)}} :
                  n \in {n \in Range(facilities) : JoinOn(s, n)}} :
           s \in {s \in Range(facilities) : s.FACILITY_ID = victim_id}}

\* the SELECT list; NEIGHBOR_ID is not a column of the frame: it records
\* which facility a row came from
Project(m) ==
    [SAVIOR_NAME |-> m.neighbor.FACILITY_NAME,
     SAVIOR_LAT |-> m.neighbor.LATITUDE,
     SAVIOR_LON |-> m.neighbor.LONGITUDE,
     AVAILABLE_STOCK |-> m.inv.CLOSING_STOCK,
     DISTANCE_KM |-> DISTANCE_KM(m.source, m.neighbor),
     NEIGHBOR_ID |-> m.neighbor.FACILITY_ID]

RECURSIVE RowOrders(_)
\* every sequence that lists each row of S once
RowOrders(S) ==
    IF S = {} THEN {<<>>}
    ELSE UNION {{<<m>> \o t : t \in RowOrders(S \ {m})} : m \in S}

\* the rows in any order at all
OrderByNothing(S) == RowOrders(S)

\* ORDER BY DISTANCE_KM ASC: the warehouse may return rows of equal
\* DISTANCE_KM in any order
OrderBy(S) ==
    {p \in RowOrders(S) :
        \A i \in 1..(Len(p) - 1) :
            DISTANCE_KM(p[i].source, p[i].neighbor)
               <= DISTANCE_KM(p[i + 1].source, p[i + 1].neighbor)}

\* LIMIT 3
Limit(p) == SubSeq(p, 1, Min(QueryLimit, Len(p)))

\* the frames session.sql(query).to_pandas() may return
QueryFrames(app, victim_id, item_name) ==
    {[k \in 1..Len(Limit(p)) |-> Project(Limit(p)[k])] :
        p \in OrderBy(Matched(app, victim_id, item_name))}

\* the generator's state while a dashboard runs
GenIdle ==
    /\ pc = "idle"
    /\ inputFile = [status |-> "missing", rows |-> <<>>]
    /\ outputFile = [exists |-> FALSE, rows |-> <<>>]
    /\ printed = <<>>
    /\ df_facilities = <<>>
    /\ victim_ids = <<>>
    /\ savior_ids = <<>>
    /\ vid = None
    /\ min_dist = MinDistStart
    /\ nearest = None
    /\ v_idx = 1
    /\ fac_idx = 1
    /\ inventory_rows = <<>>

\* find_nearest_neighbors applied to any tables of NumFacilities facilities
QueryInit ==
    /\ program \in {V1, MVP}
    /\ GenIdle
    /\ \E pos \in [1..NumFacilities -> DbPositions] :
          facilities = FacilityTable(pos)
    /\ \E stock \in [1..NumFacilities -> DbStocks \ {0}] :
          inventory = InventoryTable(stock)
    /\ query = NoQuery
    /\ neighbors_df = <<>>
    /\ SessionIdle
    /\ SelectorIdle
    /\ ResolverIdle

\* the source facility (the first row: the tables range over every placing
\* of the others around it) and the items find_nearest_neighbors is called with
QuerySources == {facilities[1].FACILITY_ID}

QueryItems == {OXYTOCIN, EPINEPHRINE}

\* find_nearest_neighbors(victim_id, item_name) when the query succeeds
\* (streamlit_app.py lines 39-59, streamlit_mvp lines 48-81)
CallFindNearest ==
    /\ program \in {V1, MVP}
    /\ query = NoQuery
    /\ \E v \in QuerySources, it \in QueryItems :
          /\ query' = [victim_id |-> v, item_name |-> it, failed |-> FALSE]
          /\ neighbors_df' \in QueryFrames(program, v, it)
    /\ UNCHANGED <<program, genVars, dbVars, resolverVars, sessionVars,
                   selectorVars>>

\* find_nearest_neighbors when session.sql raises: streamlit_app.py lets the
\* exception leave (line 59), streamlit_mvp returns an empty frame (82-84)
CallFindNearestFails ==
    /\ program \in {V1, MVP}
    /\ query = NoQuery
    /\ \E v \in QuerySources, it \in QueryItems :
          query' = [victim_id |-> v, item_name |-> it, failed |-> TRUE]
    /\ neighbors_df' = <<>>
    /\ UNCHANGED <<program, genVars, dbVars, resolverVars, sessionVars,
                   selectorVars>>

QueryNext == CallFindNearest \/ CallFindNearestFails

SpecQuery == QueryInit /\ [][QueryNext]_vars

\* facilities of the tables that hold inventory of more than one date
HistoryFacilities == 3

\* the rows of an earlier DATE: old[k] is the closing stock facility k had of
\* Oxytocin the day before, None where the table has no such row
EarlierRows(old) ==
    {InventoryRowOf(k, OXYTOCIN, LatestDate - 1, old[k]) :
        k \in {j \in DOMAIN old : old[j] # None}}

\* find_nearest_neighbors applied to tables of HistoryFacilities facilities
\* whose inventory has been loaded on two days
HistoryInit ==
    /\ program \in {V1, MVP}
    /\ GenIdle
    /\ \E pos \in [1..HistoryFacilities -> DbPositions] :
          facilities = FacilityTable(pos)
    /\ \E stock \in [1..HistoryFacilities -> DbStocks],
          old \in [1..HistoryFacilities -> DbStocks \cup {None}] :
          inventory = InventoryTable(stock) \cup EarlierRows(old)
    /\ query = NoQuery
    /\ neighbors_df = <<>>
    /\ SessionIdle
    /\ SelectorIdle
    /\ ResolverIdle

SpecHistory == HistoryInit /\ [][QueryNext]_vars

\* the generator, or find_nearest_neighbors of either dashboard
SpecNeighbors == (GenInit \/ QueryInit) /\ [][GenNext \/ QueryNext]_vars

-----------------------------------------------------------------------------
(* streamlit_mvp: run_chat_action(user_query, valid_items) *)

UpperCase == <<"A","B","C","D","E","F","G","H","I","J","K","L","M",
               "N","O","P","Q","R","S","T","U","V","W","X","Y","Z">>

LowerCase == <<"a","b","c","d","e","f","g","h","i","j","k","l","m",
               "n","o","p","q","r","s","t","u","v","w","x","y","z">>

\* str.lower() of one character
LowerChar(c) ==
    IF \E i \in 1..Len(UpperCase) : UpperCase[i] = c
      THEN LowerCase[CHOOSE i \in 1..Len(UpperCase) : UpperCase[i] = c]
      ELSE c

\* str.lower()
Lower(s) == [i \in 1..Len(s) |-> LowerChar(s[i])]

\* needle in hay (the empty string is in every string)
Contains(needle, hay) ==
    \E i \in 0..(Len(hay) - Len(needle)) :
        SubSeq(hay, i + 1, i + Len(needle)) = needle

\* item.split(" ")[0]: the text before the first space
FirstWord(item) ==
    IF \E i \in 1..Len(item) : item[i] = " "
      THEN SubSeq(item, 1,
               (CHOOSE i \in 1..Len(item) :
                   item[i] = " " /\ \A j \in 1..(i - 1) : item[j] # " ") - 1)
      ELSE item

RECURSIVE SortedByLen(_)
\* sorted(valid_items, key=len, reverse=True): longest first, names of equal
\* length in the order of the list (the sort is stable)
SortedByLen(items) ==
    IF items = <<>> THEN <<>>
    ELSE LET i == CHOOSE i \in 1..Len(items) :
                     /\ \A j \in 1..Len(items) : Len(items[j]) <= Len(items[i])
                     /\ \A j \in 1..(i - 1) : Len(items[j]) < Len(items[i])
         IN <<items[i]>> \o
            SortedByLen([k \in 1..(Len(items) - 1) |->
                            IF k < i THEN items[k] ELSE items[k + 1]])

\* run_chat_action returned None
NoItem == <<"None">>

\* line 97: the full name or its first word occurs in the lowered query
Matches(item, lowered) ==
    Contains(Lower(item), lowered) \/ Contains(Lower(FirstWord(item)), lowered)

RECURSIVE FirstMatch(_, _, _)
\* the loop of lines 94-99
FirstMatch(sorted, lowered, k) ==
    IF k > Len(sorted) THEN NoItem
    ELSE IF Matches(sorted[k], lowered) THEN sorted[k]
    ELSE FirstMatch(sorted, lowered, k + 1)

\* run_chat_action(user_query, valid_items), lines 86-99
run_chat_action(q, items) == FirstMatch(SortedByLen(items), Lower(q), 1)

\* longest query drawn from QueryChars
MaxQueryLen == 3
\* longest list of known items
MaxKnownItems == 2

QueryChars == {"A", "a", "b", " "}

AMOXICILLIN_500 == MASTER_ITEMS[3].name

\* an item of another catalog that shares its first word with one of ours
AMOXICILLIN_SUSPENSION ==
    <<"A","m","o","x","i","c","i","l","l","i","n"," ",
      "S","u","s","p","e","n","s","i","o","n">>

\* "need amoxicillin 500mg urgently"
UrgentQuery ==
    <<"n","e","e","d"," ","a","m","o","x","i","c","i","l","l","i","n"," ",
      "5","0","0","m","g"," ","u","r","g","e","n","t","l","y">>

\* the chat inputs and the known-item lists run_chat_action is applied to
Queries ==
    UNION {[1..n -> QueryChars] : n \in 0..MaxQueryLen} \cup {UrgentQuery}

KnownNames ==
    {<<"A">>, <<"b">>, <<"A", "b">>, <<"A", " ", "b">>, <<"b", " ", "A">>,
     <<"A", "b", "b">>, AMOXICILLIN_500, AMOXICILLIN_SUSPENSION}

KnownLists ==
    {l \in UNION {[1..n -> KnownNames] : n \in 0..MaxKnownItems} :
        \A i, j \in 1..Len(l) : i # j => l[i] # l[j]}

-----------------------------------------------------------------------------
(* The dashboards: one run of the script per user interaction *)

\* facilities of the tables a dashboard session runs on
SessionFacilities == 3
\* the chat transcript is followed up to this many messages
MaxMessages == 5

\* where the facilities of a session's tables lie, in metres
SessionLayout == <<0, 40, 9960, 40, 0, 9960, 0, 40>>

\* chat inputs: one that names Oxytocin, one that names no item
OxytocinPrompt == <<"n","e","e","d"," ","o","x","y","t","o","c","i","n">>

HelloPrompt == <<"h","e","l","l","o">>

Prompts == {OxytocinPrompt, HelloPrompt}

\* the character the code point U+1F534 (red circle), U+2705 (check mark)
RedCircle == "<U+1F534>"

CheckMark == "<U+2705>"

RECURSIVE Digits(_)
\* str(n) of a natural number
Digits(n) ==
    LET d == <<"0","1","2","3","4","5","6","7","8","9">>
    IN IF n < 10 THEN <<d[n + 1]>> ELSE Digits(n \div 10) \o <<d[(n % 10) + 1]>>

\* make_display_name (streamlit_app.py 134-138), make_name (streamlit_mvp
\* 135-137)
MakeDisplayName(app, name, critical_count) ==
    IF critical_count > 0
      THEN <<RedCircle, " ">> \o name \o <<" ", "(">> \o Digits(critical_count)
             \o (IF app = V1 THEN <<" ","C","r","i","t","i","c","a","l",")">>
                 ELSE <<" ","S","i","t","e","s",")">>)
      ELSE <<CheckMark, " ">> \o name
             \o <<" ","(","H","e","a","l","t","h","y",")">>

\* selected_display.split(" (")[0][2:] (streamlit_app.py 154, mvp 143)
ExtractItemName(display) ==
    LET cuts == {i \in 1..(Len(display) - 1) :
                    display[i] = " " /\ display[i + 1] = "("}
        first == IF cuts = {} THEN display
                 ELSE SubSeq(display, 1,
                        (CHOOSE i \in cuts : \A j \in cuts : i <= j) - 1)
    IN SubSeq(first, 3, Len(first))

\* the latest DATE of the inventory table
MaxDate == CHOOSE d \in {i.DATE : i \in inventory} :
              \A i \in inventory : i.DATE <= d

\* the CASE of load_network_status (streamlit_app.py 27-31) and of load_data
\* (streamlit_mvp 32-36; its WARNING rests on a column not followed here)
Status(app, stock) ==
    IF stock = 0 THEN "CRITICAL"
    ELSE IF app = V1 /\ stock < 50 THEN "LOW"
    ELSE "HEALTHY"

RECURSIVE RowsInOrder(_)
\* the rows of a set in some fixed order
RowsInOrder(S) ==
    IF S = {} THEN <<>>
    ELSE LET r == CHOOSE r \in S : TRUE IN <<r>> \o RowsInOrder(S \ {r})

RECURSIVE JoinFrom(_, _)
\* FACILITIES f JOIN inventory i ON f.FACILITY_ID = i.FACILITY_ID, from row k
\* of FACILITIES on; streamlit_app.py keeps the rows of the latest DATE
\* (lines 34-35), streamlit_mvp every row
JoinFrom(app, k) ==
    IF k > Len(facilities) THEN <<>>
    ELSE LET f == facilities[k]
             mine == {i \in inventory :
                        /\ i.FACILITY_ID = f.FACILITY_ID
                        /\ (app = V1 => i.DATE = MaxDate)}
             rows == RowsInOrder(mine)
         IN [j \in 1..Len(rows) |->
               [FACILITY_ID |-> f.FACILITY_ID,
                FACILITY_NAME |-> f.FACILITY_NAME,
                LATITUDE |-> f.LATITUDE, LONGITUDE |-> f.LONGITUDE,
                ITEM_NAME |-> rows[j].ITEM_NAME,
                CLOSING_STOCK |-> rows[j].CLOSING_STOCK,
                CRITICALITY_LEVEL |-> rows[j].CRITICALITY_LEVEL,
                STATUS |-> Status(app, rows[j].CLOSING_STOCK)]]
            \o JoinFrom(app, k + 1)

\* load_network_status() (streamlit_app.py 16-37), load_data()[0] (mvp 26-46)
LoadFrame(app) == JoinFrom(app, 1)

\* df['ITEM_NAME'].unique().tolist(): names in order of first appearance
RECURSIVE UniqueFrom(_, _, _)
UniqueFrom(df, k, seen) ==
    IF k > Len(df) THEN seen
    ELSE IF df[k].ITEM_NAME \in Range(seen) THEN UniqueFrom(df, k + 1, seen)
    ELSE UniqueFrom(df, k + 1, Append(seen, df[k].ITEM_NAME))

UniqueItems(df) == UniqueFrom(df, 1, <<>>)

CriticalCount(df, name) ==
    Cardinality({k \in 1..Len(df) :
                    df[k].ITEM_NAME = name /\ df[k].STATUS = "CRITICAL"})

\* the item selectbox stays on its first option: the item with the most
\* critical sites (sort_values('CRITICAL_COUNT', ascending=False))
SelectedDisplay(app, df) ==
    LET names == UniqueItems(df)
        top == CHOOSE i \in 1..Len(names) :
                  /\ \A j \in 1..Len(names) :
                        CriticalCount(df, names[j]) <= CriticalCount(df, names[i])
                  /\ \A j \in 1..(i - 1) :
                        CriticalCount(df, names[j]) < CriticalCount(df, names[i])
    IN MakeDisplayName(app, names[top], CriticalCount(df, names[top]))

\* the row of item_stats behind that first option
SelectedRow(df) ==
    LET names == UniqueItems(df)
        top == CHOOSE i \in 1..Len(names) :
                  /\ \A j \in 1..Len(names) :
                        CriticalCount(df, names[j]) <= CriticalCount(df, names[i])
                  /\ \A j \in 1..(i - 1) :
                        CriticalCount(df, names[j]) < CriticalCount(df, names[i])
    IN [ITEM_NAME |-> names[top], CRITICAL_COUNT |-> CriticalCount(df, names[top])]

\* critical_hospitals: the rows of the selected item with STATUS CRITICAL,
\* as indexes into df
CriticalHospitals(df, item) ==
    {k \in 1..Len(df) : df[k].ITEM_NAME = item /\ df[k].STATUS = "CRITICAL"}

\* what the user is shown
ConnectionError == "Connection Error / Data Error"

SqlError == "SQL Error"

NoSupply == "No neighbors found within range. / No nearby stock found."

SolutionFound == "Solution Found"

DebugError == "Debug Error"

\* the contents of chat messages
Greeting == "greeting"

NotIdentified == "could not identify the item"

FoundIt == "found: nearest surplus"

NoSurplus == "understood, no nearby surplus"

PromptLabel(p) == IF p = OxytocinPrompt THEN "need oxytocin" ELSE "hello"

Message(role, content) == [role |-> role, content |-> content]

\* one call of find_nearest_neighbors in a run
Call(site, failed, frame) ==
    [site |-> site, failed |-> failed, rows |-> Len(frame)]

\* The state of a script run as it proceeds: the session state and the
\* widgets it reads and writes, its local variables, and what it has shown.
StartOfRun(p) ==
    [cache |-> cache_loaded, has |-> has_messages, msgs |-> messages,
     sel |-> NoName, victim_id |-> None, item |-> <<>>, prompt |-> p,
     row |-> NoRow, display |-> <<>>,
     rendered |-> {}, end |-> "running", failures |-> {}, calls |-> <<>>,
     chat_shown |-> FALSE, options |-> {}, query |-> query,
     frame |-> neighbors_df, extracted |-> Unset, valid |-> <<>>]

\* try: df = load_network_status() / load_data(); except: st.error, st.stop
\* (streamlit_app.py 101-106, streamlit_mvp 101-105). st.cache_data keeps a
\* result once the query has succeeded.
LoadStage(r) ==
    IF r.cache THEN {r}
    ELSE {[r EXCEPT !.cache = TRUE],
          [r EXCEPT !.end = "stopped", !.rendered = @ \cup {ConnectionError},
                    !.failures = @ \cup {"load"}]}

\* find_nearest_neighbors as the run r sees it: streamlit_app.py lets a
\* failure of session.sql leave the function; streamlit_mvp shows the SQL
\* error and returns an empty frame (lines 80-84)
NeighborsStage(app, r, site, v, it) ==
    {[r EXCEPT !.query = [victim_id |-> v, item_name |-> it, failed |-> FALSE],
               !.frame = f, !.calls = Append(@, Call(site, FALSE, f))] :
        f \in QueryFrames(app, v, it)}
    \cup
    {[r EXCEPT !.query = [victim_id |-> v, item_name |-> it, failed |-> TRUE],
               !.frame = <<>>, !.calls = Append(@, Call(site, TRUE, <<>>)),
               !.failures = @ \cup {"neighbors"},
               !.end = IF app = V1 THEN "exception" ELSE @,
               !.rendered = IF app = V1 THEN @ ELSE @ \cup {SqlError}]}

\* the emergency console (streamlit_app.py 127-229, streamlit_mvp 128-202);
\* selected is the hospital the selectbox holds
ConsoleStage(app, r, selected) ==
    IF r.end # "running" THEN {r}
    ELSE
    LET df == LoadFrame(app)
        item == ExtractItemName(SelectedDisplay(app, df))
        crit == CriticalHospitals(df, item)
        options == {df[k].FACILITY_NAME : k \in crit}
        sel == IF selected \in options THEN selected ELSE NoName
        r1 == [r EXCEPT !.item = item, !.options = options, !.sel = sel,
                        !.row = SelectedRow(df),
                        !.display = SelectedDisplay(app, df)]
    IN IF sel = NoName THEN {r1}
       ELSE LET first == CHOOSE k \in crit :
                            /\ df[k].FACILITY_NAME = sel
                            /\ \A j \in crit :
                                  df[j].FACILITY_NAME = sel => k <= j
                r2 == [r1 EXCEPT !.victim_id = df[first].FACILITY_ID]
            IN {IF c.end # "running" THEN c
                ELSE IF c.frame # <<>>
                  THEN [c EXCEPT !.rendered = @ \cup {SolutionFound}]
                  ELSE [c EXCEPT !.rendered = @ \cup {NoSupply}] :
                   c \in NeighborsStage(app, r2, "console",
                                        df[first].FACILITY_ID, item)}

\* what the inference call of run_chat_action (streamlit_app.py 80-99) may
\* yield for a chat input: an exception or an unparsable answer ("error"),
\* {"item": null}, or the item the input names
InferenceOutcomes(p) ==
    {<<"error">>, <<"null">>}
       \cup (IF p = OxytocinPrompt THEN {OXYTOCIN} ELSE {})

\* the sidebar chat of streamlit_app.py, lines 264-308
ChatStageV1(r) ==
    IF r.end # "running" THEN {r}
    ELSE
    LET r1 == [r EXCEPT !.has = TRUE,
                        !.msgs = IF r.has THEN @
                                 ELSE <<Message("assistant", Greeting)>>,
                        !.chat_shown = TRUE]
    IN IF r.prompt = NoPrompt THEN {[r1 EXCEPT !.end = "complete"]}
       ELSE
       LET r2 == [r1 EXCEPT !.msgs = Append(@, Message("user", PromptLabel(r.prompt))),
                            !.valid = UniqueItems(LoadFrame(V1))]
           reply(x, text) ==
               [x EXCEPT !.msgs = Append(@, Message("assistant", text)),
                         !.end = "complete"]
       IN UNION {
            IF o = <<"error">>
              THEN {reply([r2 EXCEPT !.extracted = NoItem,
                                     !.failures = @ \cup {"inference"},
                                     !.rendered = @ \cup {DebugError}],
                          NotIdentified)}
            ELSE IF o = <<"null">>
              THEN {reply([r2 EXCEPT !.extracted = NoItem], NotIdentified)}
            ELSE IF r2.victim_id = None
              \* line 297 reads victim_id, which no line has assigned
              THEN {[r2 EXCEPT !.extracted = o, !.end = "exception"]}
            ELSE {IF c.end # "running" THEN c
                  ELSE IF c.frame # <<>> THEN reply(c, FoundIt)
                  ELSE reply(c, NoSurplus) :
                     c \in NeighborsStage(V1, [r2 EXCEPT !.extracted = o],
                                          "chat", r2.victim_id, o)}
            : o \in InferenceOutcomes(r.prompt)}

\* tab3 of streamlit_mvp, lines 271-359
ChatStageMVP(r) ==
    IF r.end # "running" THEN {r}
    ELSE
    LET df == LoadFrame(MVP)
        r1 == [r EXCEPT !.chat_shown = TRUE]
        init(x) == [x EXCEPT !.has = TRUE,
                             !.msgs = IF x.has THEN @
                                      ELSE <<Message("assistant", Greeting)>>,
                             !.end = "complete"]
        reply(x, text) ==
            init([x EXCEPT !.msgs = Append(@, Message("assistant", text))])
    IN IF r.prompt = NoPrompt THEN {init(r1)}
       ELSE IF ~r.has
         \* line 279 appends to st.session_state.messages before line 355
         THEN {[r1 EXCEPT !.end = "exception"]}
       ELSE
       LET valid == UniqueItems(df)
           item == run_chat_action(r.prompt, valid)
           r2 == [r1 EXCEPT !.msgs = Append(@, Message("user", PromptLabel(r.prompt))),
                            !.valid = valid, !.extracted = item]
       IN IF item = NoItem THEN {reply(r2, NotIdentified)}
          ELSE LET crit_sites == CriticalHospitals(df, item)
                   target_id ==
                       IF crit_sites # {}
                         THEN df[CHOOSE k \in crit_sites :
                                    \A j \in crit_sites : k <= j].FACILITY_ID
                         ELSE df[1].FACILITY_ID
               IN {IF c.frame # <<>> THEN reply(c, FoundIt)
                   ELSE reply(c, NoSurplus) :
                      c \in NeighborsStage(MVP, r2, "chat", target_id, item)}

ChatStage(app, r) == IF app = V1 THEN ChatStageV1(r) ELSE ChatStageMVP(r)

\* every way one run of the script may go, given the hospital the console's
\* selectbox holds and the chat input submitted (NoPrompt: none)
Runs(app, selected, p) ==
    UNION {UNION {ChatStage(app, c) : c \in ConsoleStage(app, l, selected)} :
              l \in LoadStage(StartOfRun(p))}

\* the session after the run r
EndOfRun(r) ==
    /\ cache_loaded' = r.cache
    /\ has_messages' = r.has
    /\ messages' = r.msgs
    /\ selected_victim' = r.sel
    /\ victim_options' = r.options
    /\ chat_shown' = r.chat_shown
    /\ user_query' = r.prompt
    /\ valid_items' = r.valid
    /\ extracted_item' = r.extracted
    /\ rendered' = r.rendered
    /\ run_end' = r.end
    /\ failures' = r.failures
    /\ calls' = r.calls
    /\ query' = r.query
    /\ neighbors_df' = r.frame
    /\ item_row' = r.row
    /\ selected_display' = r.display
    /\ actual_item_name' = r.item
    /\ UNCHANGED <<program, genVars, dbVars>>

\* a browser session opened on either dashboard, over tables of
\* SessionFacilities facilities that each hold one Oxytocin row
SessionInit ==
    /\ program \in {V1, MVP}
    /\ GenIdle
    /\ facilities = FacilityTable([k \in 1..SessionFacilities |-> SessionLayout[k]])
    /\ \E stock \in [1..SessionFacilities -> DbStocks] :
          inventory = {InventoryRowOf(k, OXYTOCIN, LatestDate, stock[k]) :
                          k \in 1..SessionFacilities}
    /\ query = NoQuery
    /\ neighbors_df = <<>>
    /\ SessionIdle
    /\ SelectorIdle
    /\ ResolverIdle

\* the script runs with the widgets as they are: the page is opened or
\* reloaded
Rerun ==
    /\ program \in {V1, MVP}
    /\ \E r \in Runs(program, selected_victim, NoPrompt) : EndOfRun(r)

\* the user picks a hospital in the console's selectbox, or clears it
SelectVictim ==
    /\ program \in {V1, MVP}
    /\ victim_options # {}
    /\ \E name \in (victim_options \cup {NoName}) \ {selected_victim} :
          \E r \in Runs(program, name, NoPrompt) : EndOfRun(r)

\* the user submits a chat input
ChatInput ==
    /\ program \in {V1, MVP}
    /\ chat_shown
    /\ Len(messages) + 2 <= MaxMessages
    /\ \E p \in Prompts :
          \E r \in Runs(program, selected_victim, p) : EndOfRun(r)

SessionNext == Rerun \/ SelectVictim \/ ChatInput

SpecSession == SessionInit /\ [][SessionNext]_vars

\* most critical sites an item of the selector has
MaxCriticalCount == 11

\* the item selector of either dashboard on any item of the catalog
SelectorInit ==
    /\ program \in {V1, MVP}
    /\ GenIdle
    /\ facilities = <<>>
    /\ inventory = {}
    /\ query = NoQuery
    /\ neighbors_df = <<>>
    /\ SessionIdle
    /\ ResolverIdle
    /\ \E i \in 1..Len(MASTER_ITEMS), c \in 0..MaxCriticalCount :
          item_row = [ITEM_NAME |-> MASTER_ITEMS[i].name, CRITICAL_COUNT |-> c]
    /\ selected_display = <<>>
    /\ actual_item_name = <<>>

\* the user picks the row in the item selectbox: the label is built
\* (streamlit_app.py 134-140, streamlit_mvp 135-139) and the name taken back
\* from it (streamlit_app.py 154, streamlit_mvp 143)
SelectItem ==
    /\ program \in {V1, MVP}
    /\ run_end = "none"
    /\ item_row # NoRow
    /\ selected_display = <<>>
    /\ selected_display' =
          MakeDisplayName(program, item_row.ITEM_NAME, item_row.CRITICAL_COUNT)
    /\ actual_item_name' =
          ExtractItemName(MakeDisplayName(program, item_row.ITEM_NAME,
                                          item_row.CRITICAL_COUNT))
    /\ UNCHANGED <<program, genVars, dbVars, queryVars, resolverVars,
                   sessionVars, item_row>>

SpecSelector == SelectorInit /\ [][SelectItem]_vars

\* run_chat_action of streamlit_mvp applied to any query and known items
ResolveInit ==
    /\ program = MVP
    /\ GenIdle
    /\ facilities = <<>>
    /\ inventory = {}
    /\ query = NoQuery
    /\ neighbors_df = <<>>
    /\ SessionIdle
    /\ SelectorIdle
    /\ user_query \in Queries
    /\ valid_items \in KnownLists
    /\ extracted_item = Unset

Resolve ==
    /\ program = MVP
    /\ run_end = "none"
    /\ extracted_item = Unset
    /\ facilities = <<>>
    /\ extracted_item' = run_chat_action(user_query, valid_items)
    /\ UNCHANGED <<program, genVars, dbVars, queryVars, user_query, valid_items,
                   sessionVars, selectorVars>>

SpecResolve == ResolveInit /\ [][Resolve]_vars

-----------------------------------------------------------------------------
(* Claims about the generator *)

\* the rows emitted so far, and the rows written by this run
EmittedRows == Range(inventory_rows)

\* C1: every record emitted by generate_inventory, scripted or randomly
\* filled, has CLOSING_STOCK = max(0, OPENING_STOCK + RECEIVED_QTY -
\* ISSUED_QTY), which is never negative; the written file holds the same rows.
C1_ClosingStockArithmetic ==
    /\ \A r \in EmittedRows :
          /\ r.CLOSING_STOCK >= 0
          /\ LET net == r.OPENING_STOCK + r.RECEIVED_QTY - r.ISSUED_QTY
             IN r.CLOSING_STOCK = (IF net > 0 THEN net ELSE 0)
    /\ pc = "done" => outputFile.rows = inventory_rows

\* a finished run that wrote a scripted crisis row, a scripted surplus row
\* and a randomly filled row
C1_Witness ==
    /\ pc = "done"
    /\ \E r \in Range(outputFile.rows) :
          r.OPENING_STOCK = CrisisOpening /\ r.CLOSING_STOCK = 0
    /\ \E r \in Range(outputFile.rows) :
          r.OPENING_STOCK = SurplusOpening /\ r.CLOSING_STOCK = 595
    /\ \E r \in Range(outputFile.rows) :
          r.OPENING_STOCK = OpeningMax /\ r.RECEIVED_QTY = ReceivedMax
             /\ r.CLOSING_STOCK = 425

\* the facilities other than v at the least distance from v
NearestOthers(df, v) ==
    {df[k].FACILITY_ID : k \in
        {k \in 1..Len(df) :
            /\ df[k].FACILITY_ID # v
            /\ \A j \in 1..Len(df) :
                  df[j].FACILITY_ID # v =>
                     Geodesic(VictimRow(df, v), df[k])
                        <= Geodesic(VictimRow(df, v), df[j])}}

SurplusRecord(r) ==
    /\ r.ITEM_NAME = OXYTOCIN
    /\ r.OPENING_STOCK = SurplusOpening
    /\ r.RECEIVED_QTY = 0
    /\ r.ISSUED_QTY = SurplusIssued
    /\ r.CLOSING_STOCK = 595

\* C6: with at least two facilities, every victim's nearest other facility
\* is designated its savior and that facility's Oxytocin record carries the
\* surplus scenario (opening 600, received 0, issued 5, closing 595).
C6_SaviorHasSurplus ==
    (pc = "done" /\ Len(df_facilities) >= 2) =>
        \A i \in 1..Len(victim_ids) :
            \E s \in NearestOthers(df_facilities, victim_ids[i]) :
                /\ s \in Range(savior_ids)
                /\ \E r \in Range(outputFile.rows) :
                      r.FACILITY_ID = s /\ SurplusRecord(r)

\* C7: with the input file missing or unreadable the output file is never
\* touched, no row is produced, and the run ends at once: with the printed
\* message for a missing file, with the uncaught exception otherwise.
C7_NoOutputOnBadInput ==
    [][inputFile.status # "ok" =>
          /\ outputFile' = outputFile
          /\ inventory_rows' = <<>>
          /\ pc' \in {"returned", "raised"}
          /\ pc' = "returned" => Len(printed') = 1]_vars

\* a run that found no input file, over an output file of an earlier run
C7_Witness ==
    /\ inputFile.status = "missing"
    /\ pc = "returned"
    /\ printed # <<>>
    /\ outputFile.exists

-----------------------------------------------------------------------------
(* Claims about find_nearest_neighbors *)

Answered == query # NoQuery /\ ~query.failed

\* C2: nearest-neighbor search never returns the source facility itself: no
\* row of the frame find_nearest_neighbors returns (either dashboard) comes
\* from the source facility, and the facility the generator's scan finds
\* nearest to a victim is never that victim.
C2_NeverTheSource ==
    /\ \A k \in 1..Len(neighbors_df) :
          neighbors_df[k].NEIGHBOR_ID # query.victim_id
    /\ vid # None => nearest # vid

\* a call whose source facility itself holds more than the threshold of the
\* item, with another facility at the same place returned
C2_Witness ==
    /\ Answered
    /\ \E i \in inventory :
          /\ i.FACILITY_ID = query.victim_id
          /\ i.ITEM_NAME = query.item_name
          /\ i.CLOSING_STOCK > MinStock
    /\ Len(neighbors_df) > 0
    /\ neighbors_df[1].DISTANCE_KM = 0

\* C3: the frame is the first min(3, M) of the M qualifying rows in ascending
\* DISTANCE_KM: 3 rows whenever M >= 3, distances non-decreasing, every row
\* a qualifying row, and no qualifying row left out has a smaller
\* DISTANCE_KM than a returned one.
C3_NearestFirstTruncated ==
    Answered =>
        LET M == Matched(program, query.victim_id, query.item_name)
        IN /\ Len(neighbors_df) = Min(QueryLimit, Cardinality(M))
           /\ \A k \in 1..(Len(neighbors_df) - 1) :
                 neighbors_df[k].DISTANCE_KM <= neighbors_df[k + 1].DISTANCE_KM
           /\ \A k \in 1..Len(neighbors_df) :
                 \E m \in M : neighbors_df[k] = Project(m)
           /\ \A m \in M :
                 Project(m) \notin Range(neighbors_df) =>
                    \A k \in 1..Len(neighbors_df) :
                       neighbors_df[k].DISTANCE_KM <= Project(m).DISTANCE_KM

\* more qualifying rows than the limit, at different distances, one farther
\* row left out
C3_Witness ==
    /\ Answered
    /\ Cardinality(Matched(program, query.victim_id, query.item_name)) > QueryLimit
    /\ Len(neighbors_df) = QueryLimit
    /\ neighbors_df[1].DISTANCE_KM < neighbors_df[QueryLimit].DISTANCE_KM
    /\ \E m \in Matched(program, query.victim_id, query.item_name) :
          /\ Project(m) \notin Range(neighbors_df)
          /\ Project(m).DISTANCE_KM > neighbors_df[QueryLimit].DISTANCE_KM

\* C4: no returned row has a closing stock of the queried item at or below
\* the threshold of 100: AVAILABLE_STOCK is a closing stock the candidate
\* holds of the item and exceeds 100, and a facility none of whose rows of
\* the item exceeds 100 is never returned, nearest or not.
C4_AboveThresholdOnly ==
    /\ \A k \in 1..Len(neighbors_df) :
          /\ neighbors_df[k].AVAILABLE_STOCK > 100
          /\ \E i \in inventory :
                /\ i.FACILITY_ID = neighbors_df[k].NEIGHBOR_ID
                /\ i.ITEM_NAME = query.item_name
                /\ i.CLOSING_STOCK = neighbors_df[k].AVAILABLE_STOCK
    /\ \A n \in Range(facilities) :
          (\A i \in inventory :
              (i.FACILITY_ID = n.FACILITY_ID /\ i.ITEM_NAME = query.item_name)
                 => i.CLOSING_STOCK <= 100)
          => \A k \in 1..Len(neighbors_df) :
                neighbors_df[k].NEIGHBOR_ID # n.FACILITY_ID

\* a facility holding exactly 100 units lies nearer to the source than every
\* returned facility and is left out
C4_Witness ==
    /\ Answered
    /\ Len(neighbors_df) > 0
    /\ \E n \in Range(facilities), s \in Range(facilities) :
          /\ s.FACILITY_ID = query.victim_id
          /\ n.FACILITY_ID # query.victim_id
          /\ \E i \in inventory :
                /\ i.FACILITY_ID = n.FACILITY_ID
                /\ i.ITEM_NAME = query.item_name
                /\ i.CLOSING_STOCK = 100
          /\ DISTANCE_KM(s, n) < neighbors_df[1].DISTANCE_KM
          /\ \A k \in 1..Len(neighbors_df) :
                neighbors_df[k].NEIGHBOR_ID # n.FACILITY_ID

-----------------------------------------------------------------------------
(* Claims about resolving an item name *)

\* the known items whose name occurs in the query, letter case aside
Occurring ==
    {valid_items[i] : i \in {j \in 1..Len(valid_items) :
                                 Contains(Lower(valid_items[j]), Lower(user_query))}}

\* C5: run_chat_action of streamlit_mvp is case-insensitive and prefers the
\* longest matching known name: when a known item's name occurs in the query,
\* whatever the letter case, the item returned is such an item and no longer
\* one occurs ("need amoxicillin 500mg urgently" gives "Amoxicillin 500mg"
\* whatever else is known).
C5_LongestOccurringName ==
    (extracted_item # Unset /\ run_end = "none" /\ Occurring # {}) =>
        /\ extracted_item \in Occurring
        /\ \A o \in Occurring : Len(o) <= Len(extracted_item)

-----------------------------------------------------------------------------
(* Claims about a dashboard session *)

\* the console's call of find_nearest_neighbors in the last run, if any
ConsoleCalls == {k \in 1..Len(calls) : calls[k].site = "console"}

ChatCalls == {k \in 1..Len(calls) : calls[k].site = "chat"}

\* the last run took a chat input
ChatRun == run_end # "none" /\ user_query # NoPrompt

LastMessage == messages[Len(messages)]

\* C8: an empty neighbor-match result is an outcome distinct from an error:
\* the console reports "no supply nearby" exactly when its neighbor query
\* succeeded with zero rows, and after a failed neighbor query neither the
\* console nor the chat reply reports that no supply was found.
C8_NoSupplyOnlyOnEmptySuccess ==
    /\ NoSupply \in rendered <=>
          \E k \in ConsoleCalls : ~calls[k].failed /\ calls[k].rows = 0
    /\ \A k \in ConsoleCalls : calls[k].failed => NoSupply \notin rendered
    /\ \A k \in ChatCalls :
          (calls[k].failed /\ run_end = "complete") =>
              LastMessage.content # NoSurplus

\* the chat input of the last run names no known item, or the resolver
\* returned none for it
Unresolved ==
    /\ ChatRun
    /\ \/ extracted_item = NoItem
       \/ run_chat_action(user_query, UniqueItems(LoadFrame(program))) = NoItem

\* C9: a chat input whose item cannot be resolved gets the explicit "could
\* not identify the item" assistant response appended to the transcript
\* after the input; the run raises no exception and the chat issues no
\* neighbor query.
C9_UnresolvedGetsNotIdentified ==
    Unresolved =>
        /\ run_end = "complete"
        /\ Len(messages) >= 2
        /\ LastMessage = Message("assistant", NotIdentified)
        /\ messages[Len(messages) - 1] = Message("user", PromptLabel(user_query))
        /\ ChatCalls = {}

\* C10: every failure of an external query (network-status load, neighbor
\* lookup, inference call) is caught where the query is called, in both
\* dashboards: the run shows an error notice and ends without an exception.
C10_FailuresCaughtAtCallSite ==
    failures # {} =>
        /\ run_end \in {"complete", "stopped"}
        /\ rendered \cap {ConnectionError, SqlError, DebugError} # {}

-----------------------------------------------------------------------------
(* Claims about the stock matcher *)

\* the closing stock of the latest DATE the inventory table holds for a
\* facility and an item
CurrentStock(fid, item) ==
    LET mine == {i \in inventory : i.FACILITY_ID = fid /\ i.ITEM_NAME = item}
        last == CHOOSE i \in mine : \A j \in mine : j.DATE <= i.DATE
    IN last.CLOSING_STOCK

\* C11: the stock matcher ranks every other facility by its current closing
\* stock: when the inventory table holds rows of several dates for one
\* facility and item, a facility appears at most once in the frame and its
\* AVAILABLE_STOCK is the closing stock of the latest date.
C11_CurrentStockOncePerFacility ==
    Answered =>
        /\ \A j, k \in 1..Len(neighbors_df) :
              j # k => neighbors_df[j].NEIGHBOR_ID # neighbors_df[k].NEIGHBOR_ID
        /\ \A k \in 1..Len(neighbors_df) :
              neighbors_df[k].AVAILABLE_STOCK =
                 CurrentStock(neighbors_df[k].NEIGHBOR_ID, query.item_name)

\* the other facilities that hold more than the threshold of the item and lie
\* less than 10 km from the source, as measured by ST_DISTANCE
WithinTenKm(victim_id, item_name) ==
    {m \in Matched(MVP, victim_id, item_name) :
        ST_DISTANCE(m.source, m.neighbor) < 10000}

\* the rows of a frame whose DISTANCE_KM is below 10
BelowCutoff(frame) ==
    LET keep == {k \in 1..Len(frame) : frame[k].DISTANCE_KM < MaxDistanceKm10}
    IN [j \in 1..Cardinality(keep) |->
          frame[CHOOSE k \in keep :
                   Cardinality({i \in keep : i < k}) = j - 1]]

\* C12: streamlit_app.py returns only matches of a distance below 10 km and
\* its cutoff drops no qualifying candidate that lies less than 10 km away;
\* streamlit_mvp has no cutoff, and its frame restricted to distances below
\* 10 km is a frame streamlit_app.py may return on the same tables.
C12_CutoffAtTenKm ==
    Answered =>
        /\ program = V1 =>
              /\ \A k \in 1..Len(neighbors_df) :
                    neighbors_df[k].DISTANCE_KM < MaxDistanceKm10
              /\ WithinTenKm(query.victim_id, query.item_name)
                    \subseteq Matched(V1, query.victim_id, query.item_name)
        /\ program = MVP =>
              BelowCutoff(neighbors_df)
                 \in QueryFrames(V1, query.victim_id, query.item_name)

-----------------------------------------------------------------------------
(* Claims about the generated dataset *)

\* no two rows of a sequence of inventory rows share facility and item
OnePerFacilityItem(rows) ==
    \A i, j \in 1..Len(rows) :
        (/\ rows[i].FACILITY_ID = rows[j].FACILITY_ID
         /\ rows[i].ITEM_NAME = rows[j].ITEM_NAME) => i = j

\* C13: the generator emits one record per (facility, item, date): the
\* facility identifiers of the input being unique, no two rows of a run share
\* FACILITY_ID and ITEM_NAME, also for the victims and saviors that get
\* Oxytocin added to their sample.
C13_OneRecordPerFacilityItem ==
    /\ OnePerFacilityItem(inventory_rows)
    /\ pc = "done" => OnePerFacilityItem(outputFile.rows)

\* a written file in which one victim had Oxytocin in its sample (its first
\* row) and another got it appended after its sampled item
C13_Witness ==
    /\ pc = "done"
    /\ \E k \in 1..(Len(outputFile.rows) - 1) :
          /\ outputFile.rows[k].FACILITY_ID = outputFile.rows[k + 1].FACILITY_ID
          /\ outputFile.rows[k].FACILITY_ID \in Range(victim_ids)
          /\ outputFile.rows[k].ITEM_NAME # OXYTOCIN
          /\ outputFile.rows[k + 1].ITEM_NAME = OXYTOCIN
    /\ \E k \in 1..(Len(outputFile.rows) - 1) :
          /\ outputFile.rows[k].FACILITY_ID = outputFile.rows[k + 1].FACILITY_ID
          /\ outputFile.rows[k].FACILITY_ID \in Range(victim_ids)
          /\ outputFile.rows[k].ITEM_NAME = OXYTOCIN

\* the first facility of the input, other than v, among those nearest to v
FirstNearest(df, v) ==
    df[CHOOSE k \in 1..Len(df) :
          /\ df[k].FACILITY_ID \in NearestOthers(df, v)
          /\ \A j \in 1..(k - 1) :
                df[j].FACILITY_ID \notin NearestOthers(df, v)].FACILITY_ID

\* C14: ties are broken by input order: when several other facilities are at
\* the same least distance from a victim, the scan selects the one that
\* comes first in the input, and that one is recorded as a savior.
C14_FirstOfTheNearest ==
    (vid # None /\ NearestOthers(df_facilities, vid) # {}) =>
        /\ nearest = FirstNearest(df_facilities, vid)
        /\ nearest \in Range(savior_ids)

\* a victim with two other facilities at the same least distance, the
\* second of them later in the input than the one selected
C14_Witness ==
    /\ vid # None
    /\ Cardinality(NearestOthers(df_facilities, vid)) >= 2
    /\ \E k \in 1..Len(df_facilities) :
          /\ df_facilities[k].FACILITY_ID = nearest
          /\ \E j \in (k + 1)..Len(df_facilities) :
                df_facilities[j].FACILITY_ID \in NearestOthers(df_facilities, vid)

\* the Oxytocin row of a victim
VictimOxytocin(r) ==
    r.ITEM_NAME = OXYTOCIN /\ r.FACILITY_ID \in Range(victim_ids)

\* C15: a generated record has CLOSING_STOCK = 0 exactly when it is the
\* Oxytocin record of a victim; every victim has such a record, with opening
\* 10, received 0 and issued 10; every other record closes at 75 or more; so
\* the dashboards' status CRITICAL marks the victims' Oxytocin rows and
\* nothing else.
C15_ZeroStockIsVictimOxytocin ==
    /\ \A r \in EmittedRows :
          /\ r.CLOSING_STOCK = 0 <=> VictimOxytocin(r)
          /\ VictimOxytocin(r) =>
                /\ r.OPENING_STOCK = 10
                /\ r.RECEIVED_QTY = 0
                /\ r.ISSUED_QTY = 10
          /\ ~VictimOxytocin(r) => r.CLOSING_STOCK >= 75
          /\ \A app \in {V1, MVP} :
                Status(app, r.CLOSING_STOCK) = "CRITICAL" <=> VictimOxytocin(r)
    /\ pc = "done" =>
          \A i \in 1..Len(victim_ids) :
              \E r \in Range(outputFile.rows) :
                  r.FACILITY_ID = victim_ids[i] /\ VictimOxytocin(r)

\* a written file of three victims and a facility that is neither victim
\* nor savior, whose Oxytocin row closes at exactly 75
C15_Witness ==
    /\ pc = "done"
    /\ Len(victim_ids) = NumVictims
    /\ \E r \in Range(outputFile.rows) :
          /\ r.FACILITY_ID \notin Range(victim_ids) \cup Range(savior_ids)
          /\ r.ITEM_NAME = OXYTOCIN
          /\ r.CLOSING_STOCK = 75
    /\ \E r \in Range(outputFile.rows) :
          VictimOxytocin(r) /\ r.CLOSING_STOCK = 0

-----------------------------------------------------------------------------
(* Claims about the item selector *)

\* C16: round trip of the item selector: for every item name of the catalog,
\* also one that contains " (", the name taken back from the label that
\* make_display_name / make_name builds is the item name itself, so the
\* console filters the rows of the selected item.
C16_SelectorRoundTrip ==
    selected_display # <<>> => actual_item_name = item_row.ITEM_NAME

-----------------------------------------------------------------------------
(* Claims about the chat transcript *)

\* C17: after any reruns and chat inputs, in both dashboards, the transcript
\* is the one assistant greeting followed by user and assistant messages in
\* strict alternation: every chat input has added one user message and one
\* assistant reply after it, whether or not a critical hospital is selected,
\* and nothing is appended before the transcript is initialised.
C17_TranscriptAlternates ==
    /\ ~has_messages => messages = <<>>
    /\ has_messages =>
          /\ Len(messages) % 2 = 1
          /\ messages[1] = Message("assistant", Greeting)
          /\ \A k \in 2..Len(messages) :
                /\ messages[k].role = (IF k % 2 = 0 THEN "user" ELSE "assistant")
                /\ messages[k].content # Greeting
    /\ ChatRun =>
          /\ Len(messages) >= 3
          /\ messages[Len(messages) - 1] = Message("user", PromptLabel(user_query))
          /\ LastMessage.role = "assistant"


====
